---------------------------- MODULE Spec2Model ----------------------------
(***************************************************************************)
(* Model of the newsletter renderer (render_newsletter.py).                *)
(*                                                                         *)
(* The program is a set of pure functions composed by a command line       *)
(* entry point.  Each function is modelled by an operator of the same      *)
(* name, computed the way the code computes it, and is exercised by a      *)
(* small state machine that draws an input and applies the function:       *)
(*                                                                         *)
(*   SpecValidate   validate_newsletter_data on parsed YAML documents      *)
(*   SpecText       the template filters format_bullet, format_bullets,    *)
(*                  clean_citations and nl2br on strings                   *)
(*   SpecFilename   generate_output_filename on date strings               *)
(*   SpecMain       one run of main over a YAML file, a template and an    *)
(*                  output location                                        *)
(*   SpecRender     render_newsletter called again and again on one dict   *)
(*                                                                         *)
(* Inputs are well typed: a document is None or a mapping, the             *)
(* 'newsletter' wrapper is a mapping, 'items' is a sequence of mappings.   *)
(***************************************************************************)
EXTENDS Integers, Sequences, FiniteSets, TLC

VARIABLES
    data,       \* validate_newsletter_data: the parsed document handed in
    vpc,        \* validate_newsletter_data: "call" before, "done" after
    verdict,    \* validate_newsletter_data: what the call did (return / raise)
    input_text, \* template filters: the str the first filter call is given
    filter,     \* template filters: the filter applied ("" before any)
    applied,    \* template filters: how often it has been applied (twice: to its own output)
    prev,       \* template filters: the argument of the latest call
    out,        \* template filters: the value the latest call returned
    cleaned,    \* format_bullet: the local `cleaned` after line 88, in the latest call
    newsletter_date, \* generate_output_filename: the date string handed in
    today,      \* generate_output_filename: the date datetime.now() gives, <<y, m, d>>
    pads_year,  \* the platform's strftime: whether %Y zero-pads a year below 1000
    fpc,        \* generate_output_filename: "call" before, "done" after
    filename,   \* generate_output_filename: what the call did (value / exception)
    yaml_file,  \* main: the file at args.yaml
    args,       \* main: the parsed command line
    template,   \* main: the template file args.template names in args.template_dir
    output_dir, \* main: the parent of output_path: "exists", "absent", or a "file" in its place
    output_before, \* main: the file at output_path when main starts: "absent" or "previous"
    output_file,   \* main: the file at output_path now: also "empty", "partial", "html"
    mpc,        \* main: the statement of the try block the run is at, "exit" after return
    newsletter_data, \* main: the local of that name (None before line 241)
    output_path,     \* main: the local of that name
    html_content,    \* main: the local of that name
    browser,    \* main: whether webbrowser.open was called
    rc,         \* main: <<>> while running, then the value returned
    caught,     \* main: the exception the try block ended in, and where it was raised
    rdata,      \* render_newsletter: the caller's dict, passed as `data`
    rdata_before, \* render_newsletter: that dict as it was before the latest call
    rdata_first,  \* render_newsletter: that dict as the first call left it
    renders,    \* render_newsletter: the number of calls made so far
    clock,      \* render_newsletter: the instant datetime.now() gave in the latest call
    rendered    \* render_newsletter: what the latest call did (value / exception)

vvars == <<data, vpc, verdict>>
tvars == <<input_text, filter, applied, prev, out, cleaned>>
fvars == <<newsletter_date, today, pads_year, fpc, filename>>
menv == <<yaml_file, args, template, output_before>>
mvars == <<yaml_file, args, template, output_dir, output_before, output_file, mpc,
           newsletter_data, output_path, html_content, browser, rc, caught>>
rvars == <<rdata, rdata_before, rdata_first, renders, clock, rendered>>
vars == <<data, vpc, verdict, input_text, filter, applied, prev, out, cleaned,
          newsletter_date, today, pads_year, fpc, filename,
          yaml_file, args, template, output_dir, output_before, output_file, mpc,
          newsletter_data, output_path, html_content, browser, rc, caught,
          rdata, rdata_before, rdata_first, renders, clock, rendered>>

(***************************************************************************)
(* Bounds                                                                  *)
(***************************************************************************)
\* longest 'items' sequence of a drawn document
MaxItems == 2
\* longest drawn text over each of the alphabets below
MaxLineTextLen == 6
MaxGlyphTextLen == 5
MaxBoldTextLen == 6
MaxNumberedTextLen == 6
MaxCiteTextLen == 5
\* most calls of render_newsletter on one dict
MaxRenders == 3

(***************************************************************************)
(* Python values                                                           *)
(***************************************************************************)
\* yaml.safe_load of an empty file
None == [NoneType |-> TRUE]

\* `not x` for None and for a mapping
Falsy(x) == x = None \/ DOMAIN x = {}

\* `key in mapping`
Has(mapping, key) == key \in DOMAIN mapping

\* how a call ended: a plain return, or an exception with its message
Returned == [exc |-> "none", msg |-> <<>>]
ValueError(message) == [exc |-> "ValueError", msg |-> message]

(***************************************************************************)
(* validate_newsletter_data                                                *)
(***************************************************************************)
\* the message texts of the four raise statements, kept as word tuples
MsgEmpty == <<"YAML file is empty">>
MsgMissing(fld) == <<"Missing required field", fld>>
MsgNoItems == <<"Newsletter must have at least one item">>
MsgMissingInItem(fld, pos) == <<"Missing required field", fld, "in item", pos>>

\* lines 25-31: the section that holds the date and the items
newsletter_of(d) == IF Has(d, "newsletter") THEN d["newsletter"] ELSE d

date_field_always_date(d) == "date"

\* lines 25-31: the name of the date key
date_field(d) == IF Has(d, "newsletter") THEN "date" ELSE "newsletter_date"

required_fields_items_first(d) == <<"items", date_field(d)>>

\* line 34
required_fields(d) == <<date_field(d), "items">>

required_item_fields_never_legacy(d) ==
    <<"company", "title", "summary", "why_it_matters", "next_steps">>

\* lines 45-49
required_item_fields(d) ==
    IF Has(d, "newsletter")
    THEN <<"company", "title", "summary", "why_it_matters", "next_steps">>
    ELSE <<"title", "summary", "why_it_matters">>

\* the loops `for field in fields: if field not in mapping: raise`:
\* the position in fields of the first field the mapping lacks, from k on; 0 if none
RECURSIVE FirstMissing(_, _, _)
FirstMissing(fields, mapping, k) ==
    IF k > Len(fields) THEN 0
    ELSE IF ~Has(mapping, fields[k]) THEN k
    ELSE FirstMissing(fields, mapping, k + 1)

\* lines 43-53: the loop over the items, from index i (0-based, as enumerate counts)
RECURSIVE check_items(_, _, _)
check_items(d, items, i) ==
    IF i >= Len(items) THEN Returned
    ELSE LET fields == required_item_fields(d)
             k == FirstMissing(fields, items[i + 1], 1)
         IN IF k # 0 THEN ValueError(MsgMissingInItem(fields[k], i + 1))
            ELSE check_items(d, items, i + 1)

no_items_check_skipped(items) == FALSE

\* line 40: `not newsletter['items']`
no_items(items) == items = <<>>

\* lines 19-53
validate_newsletter_data(d) ==
    IF Falsy(d) THEN ValueError(MsgEmpty)
    ELSE LET newsletter == newsletter_of(d)
             k == FirstMissing(required_fields(d), newsletter, 1)
         IN IF k # 0 THEN ValueError(MsgMissing(required_fields(d)[k]))
            ELSE IF no_items(newsletter["items"]) THEN ValueError(MsgNoItems)
            ELSE check_items(d, newsletter["items"], 0)

(***************************************************************************)
(* The documents validate_newsletter_data is applied to                    *)
(***************************************************************************)
ItemKeys == {"company", "title", "summary", "why_it_matters", "next_steps"}

\* an item with exactly the keys of K
Item(K) == [k \in K |-> "text"]
Items == {Item(K) : K \in SUBSET ItemKeys}

\* a mapping with the date keys of D and no 'items' key
Bare(D) == [k \in D |-> "2024-01-10"]

\* a mapping with the date keys of D and an 'items' key
Section(D, its) ==
    [k \in D \cup {"items"} |-> IF k = "items" THEN its ELSE "2024-01-10"]

DateKeySets == SUBSET {"date", "newsletter_date"}

\* what stands at root level beside a 'newsletter' wrapper
RootExtras ==
    {Bare({}),
     Bare({"newsletter_date"}),
     Section({"date"}, <<>>),
     Section({"date", "newsletter_date"},
             <<Item({"title", "summary", "why_it_matters"})>>)}

\* root with the wrapper sec added under 'newsletter'
Wrapped(root, sec) ==
    [k \in DOMAIN root \cup {"newsletter"} |->
        IF k = "newsletter" THEN sec ELSE root[k]]

\* doc is sec itself (Legacy shape) or sec wrapped under 'newsletter' (Current shape)
IsDocumentOver(doc, sec) ==
    \/ doc = sec
    \/ \E root \in RootExtras : doc = Wrapped(root, sec)

\* doc is None, or a document of either shape over any section
IsDocument(doc) ==
    \/ doc = None
    \/ \E D \in DateKeySets : IsDocumentOver(doc, Bare(D))
    \/ \E D \in DateKeySets, n \in 0..MaxItems :
            \E its \in [1..n -> Items] : IsDocumentOver(doc, Section(D, its))

(***************************************************************************)
(* Strings                                                                 *)
(*                                                                         *)
(* A str is a sequence of tokens.  A token is one character, or a run of   *)
(* characters that the patterns of this program can only match as a whole  *)
(* (Cref, IndexEq) or that only the program's own output holds (the HTML   *)
(* tags).  "u2022" is the bullet dot U+2022.                               *)
(***************************************************************************)
Bullet == "u2022"
Cref == ":contentReference[oaicite:"
IndexEq == "{index="
StrongOpen == "<strong>"
StrongClose == "</strong>"
Br == "<br>"
\* line 132: '<ul style="margin: 0; padding-left: 18px; ...">'
UlOpen == "<ul style>"
UlClose == "</ul>"
\* line 136: '<li style="margin-bottom: 5px;">'
LiOpen == "<li style>"
LiClose == "</li>"

\* the characters str.strip() and the pattern \s take for whitespace
IsSpace(c) == c \in {" ", "\n"}
\* the pattern \d
IsDigit(c) == c \in {"0", "1", "2", "3", "4", "5", "6", "7", "8", "9"}

\* the index of the first token of s at or after i that is no whitespace
RECURSIVE SkipSpace(_, _)
SkipSpace(s, i) ==
    IF i <= Len(s) /\ IsSpace(s[i]) THEN SkipSpace(s, i + 1) ELSE i

\* the index of the last token of s at or before i that is no whitespace
RECURSIVE SkipSpaceBack(_, _)
SkipSpaceBack(s, i) ==
    IF i >= 1 /\ IsSpace(s[i]) THEN SkipSpaceBack(s, i - 1) ELSE i

\* str.strip()
strip(s) == SubSeq(s, SkipSpace(s, 1), SkipSpaceBack(s, Len(s)))

\* s[i:].startswith(pat), i counted from 1
StartsWithAt(s, i, pat) ==
    /\ i + Len(pat) - 1 <= Len(s)
    /\ \A k \in 1..Len(pat) : s[i + k - 1] = pat[k]

\* str.replace(old, new) from index i on: every occurrence, left to right,
\* none overlapping an earlier one
RECURSIVE replace_from(_, _, _, _)
replace_from(s, i, old, new) ==
    IF i > Len(s) THEN <<>>
    ELSE IF StartsWithAt(s, i, old)
         THEN new \o replace_from(s, i + Len(old), old, new)
         ELSE <<s[i]>> \o replace_from(s, i + 1, old, new)

replace(s, old, new) == replace_from(s, 1, old, new)

\* str.split(sep) for a one-token separator: the pieces between the separators
RECURSIVE split_from(_, _, _, _)
split_from(s, i, start, sep) ==
    IF i > Len(s) THEN <<SubSeq(s, start, Len(s))>>
    ELSE IF s[i] = sep
         THEN <<SubSeq(s, start, i - 1)>> \o split_from(s, i + 1, i + 1, sep)
         ELSE split_from(s, i + 1, start, sep)

split(s, sep) == split_from(s, 1, 1, sep)

\* sep.join(parts)
RECURSIVE join(_, _)
join(parts, sep) ==
    IF parts = <<>> THEN <<>>
    ELSE IF Len(parts) = 1 THEN parts[1]
    ELSE parts[1] \o <<sep>> \o join(Tail(parts), sep)

(***************************************************************************)
(* format_bullet (lines 75-96)                                             *)
(***************************************************************************)
sub_leading_bullet_all_glyphs(t) ==
    LET RECURSIVE Past(_)
        Past(i) == IF i <= Len(t) /\ (IsSpace(t[i]) \/ t[i] \in {Bullet, "-"})
                   THEN Past(i + 1) ELSE i
    IN  SubSeq(t, Past(1), Len(t))

\* line 88: re.sub(r"^\s*[•\-]\s*", "", t): the pattern matches at the start
\* only; optional whitespace, one glyph, optional whitespace
sub_leading_bullet(t) ==
    LET g == SkipSpace(t, 1)
    IN  IF g <= Len(t) /\ t[g] \in {Bullet, "-"}
        THEN SubSeq(t, SkipSpace(t, g + 1), Len(t))
        ELSE t

\* line 91, the lazy group of \*\*(.+?)\*\* opened at i: the index j of the first
\* closing "**" that leaves at least one token, none a newline, between; 0 if none
RECURSIVE bold_close(_, _, _)
bold_close(s, i, j) ==
    IF j + 1 > Len(s) \/ s[j - 1] = "\n" THEN 0
    ELSE IF s[j] = "*" /\ s[j + 1] = "*" THEN j
    ELSE bold_close(s, i, j + 1)

\* line 91: re.sub(r"\*\*(.+?)\*\*", r"<strong>\1</strong>", s) from index i on
RECURSIVE sub_bold_from(_, _)
sub_bold_from(s, i) ==
    IF i > Len(s) THEN <<>>
    ELSE LET j == IF StartsWithAt(s, i, <<"*", "*">>) /\ i + 2 <= Len(s)
                  THEN bold_close(s, i, i + 3) ELSE 0
         IN IF j # 0
            THEN <<StrongOpen>> \o SubSeq(s, i + 2, j - 1) \o <<StrongClose>>
                    \o sub_bold_from(s, j + 2)
            ELSE <<s[i]>> \o sub_bold_from(s, i + 1)

sub_bold(s) == sub_bold_from(s, 1)

strip_citation_literals_brace_first(s) ==
    replace(replace(replace(s, <<"}">>, <<>>), <<Cref>>, <<>>), <<"]", IndexEq>>, <<>>)

\* line 94: the three literal removals, in the order written
strip_citation_literals(s) ==
    replace(replace(replace(s, <<Cref>>, <<>>), <<"]", IndexEq>>, <<>>), <<"}">>, <<>>)

\* line 88: the value of cleaned after the bullet strip
bullet_stripped(text) == sub_leading_bullet(strip(text))

\* lines 84-96
format_bullet(text) ==
    IF text = <<>> THEN <<>>
    ELSE strip_citation_literals(sub_bold(bullet_stripped(text)))

(***************************************************************************)
(* clean_citations (lines 103-111) and nl2br (lines 113-117)               *)
(***************************************************************************)
\* the index after the run of digits of s that starts at i (i itself if none)
RECURSIVE SkipDigits(_, _)
SkipDigits(s, i) ==
    IF i <= Len(s) /\ IsDigit(s[i]) THEN SkipDigits(s, i + 1) ELSE i

\* the index after the run of tokens of s other than "]" that starts at i
RECURSIVE SkipNonClose(_, _)
SkipNonClose(s, i) ==
    IF i <= Len(s) /\ s[i] # "]" THEN SkipNonClose(s, i + 1) ELSE i

\* line 108, \[\d+\] tried at i: the index after the match, 0 if it fails
numbered_end(s, i) ==
    LET d == SkipDigits(s, i + 1)
    IN  IF s[i] = "[" /\ d > i + 1 /\ d <= Len(s) /\ s[d] = "]" THEN d + 1 ELSE 0

\* line 108: re.sub(r'\[\d+\]', '', s) from index i on
RECURSIVE sub_numbered_from(_, _)
sub_numbered_from(s, i) ==
    IF i > Len(s) THEN <<>>
    ELSE IF numbered_end(s, i) # 0 THEN sub_numbered_from(s, numbered_end(s, i))
    ELSE <<s[i]>> \o sub_numbered_from(s, i + 1)

\* line 110, :contentReference\[oaicite:[^\]]+\]\{index=\d+\} tried at i: the
\* index after the match, 0 if it fails
structured_end(s, i) ==
    LET c == SkipNonClose(s, i + 1)
        d == SkipDigits(s, c + 2)
    IN  IF /\ s[i] = Cref
           /\ c > i + 1
           /\ StartsWithAt(s, c, <<"]", IndexEq>>)
           /\ d > c + 2
           /\ d <= Len(s) /\ s[d] = "}"
        THEN d + 1 ELSE 0

\* line 110: the re.sub of the structured citation from index i on
RECURSIVE sub_structured_from(_, _)
sub_structured_from(s, i) ==
    IF i > Len(s) THEN <<>>
    ELSE IF structured_end(s, i) # 0 THEN sub_structured_from(s, structured_end(s, i))
    ELSE <<s[i]>> \o sub_structured_from(s, i + 1)

\* lines 105-111
clean_citations(text) ==
    IF text = <<>> THEN <<>>
    ELSE sub_structured_from(sub_numbered_from(text, 1), 1)

nl2br_keeps_newline(text) ==
    IF text = <<>> THEN <<>> ELSE replace(text, <<"\n">>, <<Br, "\n">>)

\* lines 115-117
nl2br(text) ==
    IF text = <<>> THEN <<>> ELSE replace(text, <<"\n">>, <<Br>>)

(***************************************************************************)
(* format_bullets (lines 119-148)                                          *)
(***************************************************************************)
\* line 130: line.strip().startswith(('-', bullet dot))
is_bullet_line(line) ==
    strip(line) # <<>> /\ Head(strip(line)) \in {"-", Bullet}

RECURSIVE bullets_loop_never_closing_at_end(_, _, _)
bullets_loop_never_closing_at_end(lines, i, in_list) ==
    IF i > Len(lines) THEN <<>>
    ELSE IF is_bullet_line(lines[i])
         THEN (IF ~in_list THEN <<<<UlOpen>>>> ELSE <<>>)
                \o <<<<LiOpen>> \o format_bullet(lines[i]) \o <<LiClose>>>>
                \o bullets_loop_never_closing_at_end(lines, i + 1, TRUE)
         ELSE (IF in_list THEN <<<<UlClose>>>> ELSE <<>>)
                \o (IF strip(lines[i]) # <<>> THEN <<lines[i]>> ELSE <<>>)
                \o bullets_loop_never_closing_at_end(lines, i + 1, FALSE)

\* lines 128-146: the loop from line i on with the flag in_list, then the closing
\* of a list left open; the lines appended to result
RECURSIVE bullets_loop(_, _, _)
bullets_loop(lines, i, in_list) ==
    IF i > Len(lines) THEN (IF in_list THEN <<<<UlClose>>>> ELSE <<>>)
    ELSE IF is_bullet_line(lines[i])
         THEN (IF ~in_list THEN <<<<UlOpen>>>> ELSE <<>>)
                \o <<<<LiOpen>> \o format_bullet(lines[i]) \o <<LiClose>>>>
                \o bullets_loop(lines, i + 1, TRUE)
         ELSE (IF in_list THEN <<<<UlClose>>>> ELSE <<>>)
                \o (IF strip(lines[i]) # <<>> THEN <<lines[i]>> ELSE <<>>)
                \o bullets_loop(lines, i + 1, FALSE)

lines_of_untrimmed(text) == split(text, "\n")

\* line 124
lines_of(text) == split(strip(text), "\n")

\* lines 121-148
format_bullets(text) ==
    IF text = <<>> THEN <<>>
    ELSE join(bullets_loop(lines_of(text), 1, FALSE), "\n")

(***************************************************************************)
(* The strings the filters are applied to                                  *)
(***************************************************************************)
\* bullet lines, plain lines, blank lines
LineChars == {"-", " ", "\n", "a"}
\* both bullet glyphs
GlyphChars == {Bullet, "-", " ", "a"}
\* markdown bold, and a brace the literal removal takes out
BoldChars == {"*", "a", "}", "\n"}
\* numbered citations [n]
NumberedChars == {"[", "1", "]", "a"}
\* the pieces of :contentReference[oaicite:n]{index=n}
CiteChars == {Cref, "1", "]", IndexEq, "}"}

\* the examples of the documentation, a letter standing for each word
ExampleTexts ==
    {<<"-", " ", "a">>,                                 \* "- Hello"
     <<" ", " ", Bullet, " ", "a", " ", " ">>,          \* "  • World  "
     <<"a", " ", "a">>,                                 \* "no bullet"
     <<"a", " ", "*", "*", "a", "*", "*", " ", "a">>,   \* "a **b** c"
     <<"-", " ", "a", "\n", "-", " ", "a", "\n", "a">>, \* "- a\n- b\ntext"
     <<"a", "\n", "a">>,                                \* "a\nb"
     <<"a", Cref, "1", "]", IndexEq, "1", "}">>,        \* a structured citation
     <<"a", "[", "1", "]", "[", "1", "2", "]">>}        \* "a[1][12]"

\* s is a string of at most n tokens of alphabet
IsStringOver(s, alphabet, n) == \E k \in 0..n : s \in [1..k -> alphabet]

IsText(s) ==
    \/ s \in ExampleTexts
    \/ IsStringOver(s, LineChars, MaxLineTextLen)
    \/ IsStringOver(s, GlyphChars, MaxGlyphTextLen)
    \/ IsStringOver(s, BoldChars, MaxBoldTextLen)
    \/ IsStringOver(s, NumberedChars, MaxNumberedTextLen)
    \/ IsStringOver(s, CiteChars, MaxCiteTextLen)

(***************************************************************************)
(* generate_output_filename (lines 177-187)                                *)
(***************************************************************************)
\* int() of a digit
DigitValue(c) ==
    CASE c = "0" -> 0 [] c = "1" -> 1 [] c = "2" -> 2 [] c = "3" -> 3 [] c = "4" -> 4
      [] c = "5" -> 5 [] c = "6" -> 6 [] c = "7" -> 7 [] c = "8" -> 8 [] c = "9" -> 9
DigitChar(n) == <<"0", "1", "2", "3", "4", "5", "6", "7", "8", "9">>[n + 1]

\* int() of a run of digits, spaces ignored (the day directive admits " 5")
RECURSIVE IntOf(_)
IntOf(s) ==
    IF s = <<>> THEN 0
    ELSE IF s[Len(s)] = " " THEN IntOf(SubSeq(s, 1, Len(s) - 1))
    ELSE 10 * IntOf(SubSeq(s, 1, Len(s) - 1)) + DigitValue(s[Len(s)])

\* s[i] exists and is one of chars
CharIn(s, i, chars) == i <= Len(s) /\ s[i] \in chars

\* line 181, %m = 1[0-2]|0[1-9]|[1-9] tried at i: the indexes after each
\* alternative that matches, in the order the alternatives are tried
month_ends(s, i) ==
    (IF CharIn(s, i, {"1"}) /\ CharIn(s, i + 1, {"0", "1", "2"}) THEN <<i + 2>> ELSE <<>>)
    \o (IF CharIn(s, i, {"0"}) /\ i + 1 <= Len(s) /\ IsDigit(s[i + 1]) /\ s[i + 1] # "0"
        THEN <<i + 2>> ELSE <<>>)
    \o (IF i <= Len(s) /\ IsDigit(s[i]) /\ s[i] # "0" THEN <<i + 1>> ELSE <<>>)

\* line 181, %d = 3[01]|[12]\d|0[1-9]|[1-9]| [1-9] tried at i: the index after
\* the first alternative that matches, 0 if none does
day_end(s, i) ==
    IF CharIn(s, i, {"3"}) /\ CharIn(s, i + 1, {"0", "1"}) THEN i + 2
    ELSE IF CharIn(s, i, {"1", "2"}) /\ i + 1 <= Len(s) /\ IsDigit(s[i + 1]) THEN i + 2
    ELSE IF CharIn(s, i, {"0"}) /\ i + 1 <= Len(s) /\ IsDigit(s[i + 1]) /\ s[i + 1] # "0"
         THEN i + 2
    ELSE IF i <= Len(s) /\ IsDigit(s[i]) /\ s[i] # "0" THEN i + 1
    ELSE IF CharIn(s, i, {" "}) /\ i + 1 <= Len(s) /\ IsDigit(s[i + 1]) /\ s[i + 1] # "0"
         THEN i + 2
    ELSE 0

\* calendar.monthrange
IsLeap(y) == y % 4 = 0 /\ (y % 100 # 0 \/ y % 400 = 0)
DaysInMonth(y, m) ==
    IF m = 2 THEN (IF IsLeap(y) THEN 29 ELSE 28)
    ELSE IF m \in {4, 6, 9, 11} THEN 30 ELSE 31

Parsed(y, m, d) == [exc |-> "none", value |-> <<y, m, d>>]
Raised(kind) == [exc |-> kind, value |-> <<>>]

\* line 181: datetime.strptime(s, '%Y-%m-%d'): the pattern (\d\d\d\d)-(%m)-(%d)
\* must match at the start and leave nothing over; the date must exist
strptime(s) ==
    IF ~(/\ Len(s) >= 5
         /\ \A i \in 1..4 : IsDigit(s[i])
         /\ s[5] = "-")
    THEN Raised("ValueError")
    ELSE LET ends == month_ends(s, 6)
             good == {k \in 1..Len(ends) :
                         CharIn(s, ends[k], {"-"}) /\ day_end(s, ends[k] + 1) # 0}
         IN IF good = {} THEN Raised("ValueError")
            ELSE LET k == CHOOSE k \in good : \A j \in good : k <= j
                     e == day_end(s, ends[k] + 1)
                     y == IntOf(SubSeq(s, 1, 4))
                     m == IntOf(SubSeq(s, 6, ends[k] - 1))
                     d == IntOf(SubSeq(s, ends[k] + 1, e - 1))
                 IN IF e # Len(s) + 1 THEN Raised("ValueError")
                    ELSE IF y < 1 \/ d > DaysInMonth(y, m) THEN Raised("ValueError")
                    ELSE Parsed(y, m, d)

\* n in decimal, zero-padded to at least width digits
RECURSIVE Decimal(_, _)
Decimal(n, width) ==
    IF n < 10 /\ width <= 1 THEN <<DigitChar(n)>>
    ELSE Decimal(n \div 10, width - 1) \o <<DigitChar(n % 10)>>

\* lines 182 and 185: strftime('%Y%m%d'); the C library decides whether %Y
\* zero-pads a year below 1000 (glibc does not)
strftime(date, pads) ==
    Decimal(date[1], IF pads THEN 4 ELSE 1) \o Decimal(date[2], 2) \o Decimal(date[3], 2)

\* lines 177-187: a ValueError of strptime is caught and the current date used
generate_output_filename(s, now, pads) ==
    LET date_str == IF strptime(s).exc = "none" THEN strftime(strptime(s).value, pads)
                    ELSE strftime(now, pads)
    IN  IF strptime(s).exc \in {"none", "ValueError"}
        THEN [exc |-> "none", value |-> <<"newsletter_">> \o date_str \o <<".html">>]
        ELSE Raised(strptime(s).exc)

(***************************************************************************)
(* The date strings generate_output_filename is applied to                 *)
(***************************************************************************)
YearTexts ==
    {<<"2", "0", "2", "4">>, <<"2", "0", "2", "3">>, <<"1", "9", "0", "0">>,
     <<"2", "0", "0", "0">>, <<"0", "9", "9", "9">>, <<"0", "0", "0", "0">>,
     <<"2", "0", "2">>, <<"2", "0", "2", "4", "1">>, <<"n", "o", "t">>}
SeparatorTexts == {<<"-">>, <<"/">>, <<>>}
MonthTexts ==
    {<<"0", "1">>, <<"1">>, <<"0", "2">>, <<"2">>, <<"1", "0">>, <<"1", "2">>,
     <<"1", "3">>, <<"0", "0">>, <<"0">>, <<"a">>, <<>>}
DayTexts ==
    {<<"1", "0">>, <<"0", "1">>, <<"1">>, <<" ", "5">>, <<"2", "8">>, <<"2", "9">>,
     <<"3", "0">>, <<"3", "1">>, <<"3", "2">>, <<"0", "0">>, <<"0">>, <<"d">>, <<>>}
TailTexts == {<<>>, <<" ">>, <<"x">>, <<"\n">>}

IsDateText(s) ==
    \E y \in YearTexts, a \in SeparatorTexts, m \in MonthTexts,
       b \in SeparatorTexts, d \in DayTexts, t \in TailTexts :
        s = y \o a \o m \o b \o d \o t

\* the dates datetime.now() may give
Todays == {<<2026, 11, 6>>, <<2024, 1, 10>>}

(***************************************************************************)
(* main: the command line run                                              *)
(***************************************************************************)
\* YAML scalars under a date key: a quoted date is a str, a bare one a date object
Str(chars) == [type |-> "str", chars |-> chars]
DateObject == [type |-> "date"]

\* mapping.get(key, default)
get(mapping, key, default) == IF Has(mapping, key) THEN mapping[key] ELSE default

\* the file at args.yaml: not there, not readable, not YAML, or a document;
\* surrogate says that a quoted scalar of the document holds an escape such as
\* "\ud800", which yaml.safe_load turns into a lone surrogate
FileMissing == [kind |-> "missing"]
FileUnreadable == [kind |-> "unreadable"]
FileMalformed == [kind |-> "malformed"]
FileOf(doc, surrogate) == [kind |-> "document", doc |-> doc, surrogate |-> surrogate]

\* lines 56-69: open, yaml.safe_load, validate; FileNotFoundError is raised
\* anew, yaml.YAMLError becomes ValueError, anything else passes through
load_yaml_data(file) ==
    IF file.kind = "missing" THEN Raised("FileNotFoundError")
    ELSE IF file.kind = "unreadable" THEN Raised("PermissionError")
    ELSE IF file.kind = "malformed" THEN Raised("ValueError")
    ELSE IF validate_newsletter_data(file.doc).exc # "none"
         THEN Raised(validate_newsletter_data(file.doc).exc)
         ELSE [exc |-> "none", value |-> file.doc]

\* lines 249-252: where main looks the date up
date_of(d) ==
    IF Has(d, "newsletter") THEN get(get(d, "newsletter", <<>>), "date", Str(<<>>))
    ELSE get(d, "newsletter_date", Str(<<>>))

\* lines 245-254: args.output if given, else output_dir joined with the derived
\* name; strptime raises TypeError for a date that is not a str
output_path_of(a, d, now, pads) ==
    IF a.output # <<>> THEN [exc |-> "none", value |-> a.output]
    ELSE IF date_of(d).type # "str" THEN Raised("TypeError")
    ELSE LET name == generate_output_filename(date_of(d).chars, now, pads)
         IN  IF name.exc # "none" THEN name
             ELSE [exc |-> "none", value |-> <<a.output_dir, "/">> \o name.value]

\* lines 161-162: env.get_template on the template file
get_template(tpl) ==
    IF tpl = "missing" THEN Raised("TemplateNotFound")
    ELSE IF tpl = "malformed" THEN Raised("TemplateSyntaxError")
    ELSE [exc |-> "none", value |-> tpl]

\* line 166: strftime('%Y-%m-%d %H:%M:%S') of the instant <<y, m, d, H, M, S>>
strftime_timestamp(t, pads) ==
    Decimal(t[1], IF pads THEN 4 ELSE 1) \o <<"-">> \o Decimal(t[2], 2) \o <<"-">>
        \o Decimal(t[3], 2) \o <<" ">> \o Decimal(t[4], 2) \o <<":">>
        \o Decimal(t[5], 2) \o <<":">> \o Decimal(t[6], 2)

with_generated_at_always_fresh(d, stamp) ==
    [k \in DOMAIN d \cup {"generated_at"} |->
        IF k = "generated_at" THEN stamp ELSE d[k]]

\* lines 165-166: generated_at is added unless the dict has it
with_generated_at(d, stamp) ==
    [k \in DOMAIN d \cup {"generated_at"} |->
        IF k \in DOMAIN d THEN d[k] ELSE stamp]

\* lines 159-168: what the call makes of the caller's dict and what it returns
\* or raises; the dict is touched only once the template was found
render_newsletter(d, tpl, stamp) ==
    IF get_template(tpl).exc # "none"
    THEN [data |-> d, result |-> get_template(tpl)]
    ELSE [data |-> with_generated_at(d, stamp),
          result |-> IF tpl = "failing" THEN Raised("UndefinedError")
                     ELSE [exc |-> "none", value |-> <<"html">>]]

\* the except clause an exception of main's try block lands in (lines 298-310):
\* the first clause whose class the exception is an instance of
ValueErrors == {"ValueError", "UnicodeEncodeError"}
handler_of(exc) ==
    IF exc = "FileNotFoundError" THEN "except FileNotFoundError"
    ELSE IF exc \in ValueErrors THEN "except ValueError"
    ELSE "except Exception"

\* no output yet rendered
NoHtml == [rendered |-> FALSE, encodable |-> TRUE]

(***************************************************************************)
(* The runs of main                                                        *)
(***************************************************************************)
FullItem == Item(ItemKeys)
LegacyItem == Item({"title", "summary", "why_it_matters"})

\* a mapping with the one key, holding v
Dated(key, v) == [k \in {key} |-> v]

\* a mapping with the one date key, holding the scalar v, and the items its
DatedSection(key, v, its) ==
    [k \in {key, "items"} |-> IF k = "items" THEN its ELSE v]

DateScalars ==
    {Str(<<"2", "0", "2", "4", "-", "0", "1", "-", "1", "0">>),
     Str(<<"0", "9", "9", "9", "-", "0", "1", "-", "0", "1">>),
     Str(<<"n", "o", "t", "-", "a", "-", "d", "a", "t", "e">>),
     DateObject}

\* file holds a document main may load: empty, valid of either shape with any
\* of the date scalars, or invalid in one of the ways validation rejects
IsDocumentFile(file, surrogate) ==
    \/ file = FileOf(None, surrogate)
    \/ \E v \in DateScalars :
          \/ file = FileOf(Wrapped(<<>>, DatedSection("date", v, <<FullItem>>)),
                           surrogate)
          \/ file = FileOf(Wrapped([generated_at |-> <<"earlier">>],
                                   DatedSection("date", v, <<FullItem, FullItem>>)),
                           surrogate)
          \/ file = FileOf(DatedSection("newsletter_date", v, <<LegacyItem>>),
                           surrogate)
          \/ file = FileOf(Wrapped(<<>>, Dated("date", v)), surrogate)
          \/ file = FileOf(DatedSection("newsletter_date", v, <<>>), surrogate)
          \/ file = FileOf(Wrapped(<<>>, DatedSection("date", v, <<LegacyItem>>)),
                           surrogate)

IsYamlFile(file) ==
    \/ file \in {FileMissing, FileUnreadable, FileMalformed}
    \/ \E surrogate \in BOOLEAN : IsDocumentFile(file, surrogate)

\* the command lines: --output given or not ('' and None are both falsy),
\* --preview given or not
Arguments ==
    {[output |-> o, output_dir |-> "output", preview |-> p] :
        o \in {<<>>, <<"site/index.html">>}, p \in BOOLEAN}

\* the template file: not there, not Jinja2, failing when rendered, or rendering
Templates == {"missing", "malformed", "failing", "renders"}

(***************************************************************************)
(* SpecValidate: draw a document, validate it                              *)
(***************************************************************************)
VIdle == data = None /\ vpc = "idle" /\ verdict = Returned
TIdle ==
    /\ input_text = <<>> /\ filter = "" /\ applied = -1
    /\ prev = <<>> /\ out = <<>> /\ cleaned = <<>>

FIdle ==
    /\ newsletter_date = <<>> /\ today = <<1, 1, 1>> /\ pads_year = TRUE
    /\ fpc = "idle" /\ filename = Raised("")

NotCaught == [exc |-> "none", at |-> "", handler |-> ""]

\* main passes no time of day on: the run is dated by `today`
Midnight == <<0, 0, 0>>

RIdle ==
    /\ rdata = <<>> /\ rdata_before = <<>> /\ rdata_first = <<>>
    /\ renders = -1 /\ clock = 0 /\ rendered = Raised("")

MIdle ==
    /\ yaml_file = FileMissing /\ args = <<>> /\ template = ""
    /\ output_dir = "" /\ output_before = "" /\ output_file = ""
    /\ mpc = "idle" /\ newsletter_data = None /\ output_path = <<>>
    /\ html_content = NoHtml /\ browser = FALSE /\ rc = <<>> /\ caught = NotCaught

InitValidate ==
    /\ IsDocument(data)
    /\ vpc = "call"
    /\ verdict = Returned
    /\ TIdle /\ FIdle /\ MIdle /\ RIdle

Validate ==
    /\ vpc = "call"
    /\ verdict' = validate_newsletter_data(data)
    /\ vpc' = "done"
    /\ UNCHANGED <<data, tvars, fvars, mvars, rvars>>

NextValidate == Validate

SpecValidate == InitValidate /\ [][NextValidate]_vars

(***************************************************************************)
(* SpecText: draw a string, apply one filter, apply a single-string        *)
(* normalizer once more to its own output                                  *)
(***************************************************************************)
InitText ==
    /\ IsText(input_text)
    /\ filter = "" /\ applied = 0
    /\ prev = <<>> /\ out = <<>> /\ cleaned = <<>>
    /\ VIdle /\ FIdle /\ MIdle /\ RIdle

\* the value of `cleaned` after line 88 when format_bullet is given s
cleaned_at_88(s) == IF s = <<>> THEN <<>> ELSE bullet_stripped(s)

ApplyFormatBullet ==
    /\ applied = 0
    /\ filter' = "format_bullet"
    /\ prev' = input_text
    /\ out' = format_bullet(input_text)
    /\ cleaned' = cleaned_at_88(input_text)
    /\ applied' = 1
    /\ UNCHANGED <<input_text, vvars, fvars, mvars, rvars>>

ApplyCleanCitations ==
    /\ applied = 0
    /\ filter' = "clean_citations"
    /\ prev' = input_text
    /\ out' = clean_citations(input_text)
    /\ applied' = 1
    /\ UNCHANGED <<input_text, cleaned, vvars, fvars, mvars, rvars>>

ApplyNl2br ==
    /\ applied = 0
    /\ filter' = "nl2br"
    /\ prev' = input_text
    /\ out' = nl2br(input_text)
    /\ applied' = 1
    /\ UNCHANGED <<input_text, cleaned, vvars, fvars, mvars, rvars>>

ApplyFormatBullets ==
    /\ applied = 0
    /\ filter' = "format_bullets"
    /\ prev' = input_text
    /\ out' = format_bullets(input_text)
    /\ applied' = 1
    /\ UNCHANGED <<input_text, cleaned, vvars, fvars, mvars, rvars>>

ReapplyFormatBullet ==
    /\ applied = 1 /\ filter = "format_bullet"
    /\ prev' = out
    /\ out' = format_bullet(out)
    /\ cleaned' = cleaned_at_88(out)
    /\ applied' = 2
    /\ UNCHANGED <<input_text, filter, vvars, fvars, mvars, rvars>>

ReapplyCleanCitations ==
    /\ applied = 1 /\ filter = "clean_citations"
    /\ prev' = out
    /\ out' = clean_citations(out)
    /\ applied' = 2
    /\ UNCHANGED <<input_text, filter, cleaned, vvars, fvars, mvars, rvars>>

ReapplyNl2br ==
    /\ applied = 1 /\ filter = "nl2br"
    /\ prev' = out
    /\ out' = nl2br(out)
    /\ applied' = 2
    /\ UNCHANGED <<input_text, filter, cleaned, vvars, fvars, mvars, rvars>>

NextText ==
    \/ ApplyFormatBullet
    \/ ApplyCleanCitations
    \/ ApplyNl2br
    \/ ApplyFormatBullets
    \/ ReapplyFormatBullet
    \/ ReapplyCleanCitations
    \/ ReapplyNl2br

SpecText == InitText /\ [][NextText]_vars

(***************************************************************************)
(* SpecFilename: draw a date string, a current date and a platform, derive *)
(* the file name                                                           *)
(***************************************************************************)
InitFilename ==
    /\ IsDateText(newsletter_date)
    /\ today \in Todays
    /\ pads_year \in BOOLEAN
    /\ fpc = "call"
    /\ filename = Raised("")
    /\ VIdle /\ TIdle /\ MIdle /\ RIdle

GenerateOutputFilename ==
    /\ fpc = "call"
    /\ filename' = generate_output_filename(newsletter_date, today, pads_year)
    /\ fpc' = "done"
    /\ UNCHANGED <<newsletter_date, today, pads_year, vvars, tvars, mvars, rvars>>

NextFilename == GenerateOutputFilename

SpecFilename == InitFilename /\ [][NextFilename]_vars

(***************************************************************************)
(* SpecMain: one run of main, from the call of load_yaml_data to the       *)
(* return; an exception of a step unwinds to its except clause             *)
(***************************************************************************)
InitMain ==
    /\ IsYamlFile(yaml_file)
    /\ args \in Arguments
    /\ template \in Templates
    /\ \/ output_dir = "exists" /\ output_before \in {"absent", "previous"}
       \/ output_dir \in {"absent", "file"} /\ output_before = "absent"
    /\ output_file = output_before
    /\ mpc = "load"
    /\ newsletter_data = None
    /\ output_path = <<>>
    /\ html_content = NoHtml
    /\ browser = FALSE
    /\ rc = <<>>
    /\ caught = NotCaught
    /\ today \in Todays
    /\ pads_year \in BOOLEAN
    /\ newsletter_date = <<>> /\ fpc = "idle" /\ filename = Raised("")
    /\ VIdle /\ TIdle /\ RIdle

\* lines 298-310: the except clause logs and returns 1
Except(exc, at) ==
    /\ caught' = [exc |-> exc, at |-> at, handler |-> handler_of(exc)]
    /\ rc' = <<1>>
    /\ mpc' = "exit"

\* lines 241-242
LoadYamlData ==
    /\ mpc = "load"
    /\ LET loaded == load_yaml_data(yaml_file)
       IN  IF loaded.exc # "none"
           THEN Except(loaded.exc, "load") /\ UNCHANGED newsletter_data
           ELSE /\ newsletter_data' = loaded.value
                /\ mpc' = "output_path"
                /\ UNCHANGED <<rc, caught>>
    /\ UNCHANGED <<menv, output_dir, output_file, output_path, html_content, browser,
                   vvars, tvars, fvars, rvars>>

\* lines 245-254
OutputPath ==
    /\ mpc = "output_path"
    /\ LET path == output_path_of(args, newsletter_data, today, pads_year)
       IN  IF path.exc # "none"
           THEN Except(path.exc, "output_path") /\ UNCHANGED output_path
           ELSE /\ output_path' = path.value
                /\ mpc' = "ensure_output_directory"
                /\ UNCHANGED <<rc, caught>>
    /\ UNCHANGED <<menv, output_dir, output_file, newsletter_data, html_content,
                   browser, vvars, tvars, fvars, rvars>>

\* line 257, lines 171-174: mkdir(parents=True, exist_ok=True) raises
\* FileExistsError when a file stands where the directory should be
EnsureOutputDirectory ==
    /\ mpc = "ensure_output_directory"
    /\ IF output_dir = "file"
       THEN Except("FileExistsError", "ensure_output_directory") /\ UNCHANGED output_dir
       ELSE /\ output_dir' = "exists"
            /\ mpc' = "render"
            /\ UNCHANGED <<rc, caught>>
    /\ UNCHANGED <<menv, output_file, newsletter_data, output_path, html_content,
                   browser, vvars, tvars, fvars, rvars>>

\* lines 261-266, lines 159-168: get_template, generated_at, template.render;
\* the HTML holds a lone surrogate only if the document does and the template
\* prints that scalar
RenderNewsletter ==
    /\ mpc = "render"
    /\ IF get_template(template).exc # "none"
       THEN /\ Except(get_template(template).exc, "render")
            /\ UNCHANGED <<newsletter_data, html_content>>
       ELSE /\ newsletter_data' =
                    with_generated_at(newsletter_data,
                                      strftime_timestamp(today \o Midnight, pads_year))
            /\ IF template = "failing"
               THEN Except("UndefinedError", "render") /\ UNCHANGED html_content
               ELSE /\ \E encodable \in
                            (IF yaml_file.surrogate THEN BOOLEAN ELSE {TRUE}) :
                          html_content' = [rendered |-> TRUE, encodable |-> encodable]
                    /\ mpc' = "open"
                    /\ UNCHANGED <<rc, caught>>
    /\ UNCHANGED <<menv, output_dir, output_file, output_path, browser,
                   vvars, tvars, fvars, rvars>>

\* line 269: open(output_path, 'w') creates the file or truncates it, unless
\* the operating system refuses
OpenOutputFile ==
    /\ mpc = "open"
    /\ \E refused \in BOOLEAN :
          IF refused
          THEN Except("PermissionError", "open") /\ UNCHANGED output_file
          ELSE /\ output_file' = "empty"
               /\ mpc' = "write"
               /\ UNCHANGED <<rc, caught>>
    /\ UNCHANGED <<menv, output_dir, newsletter_data, output_path, html_content,
                   browser, vvars, tvars, fvars, rvars>>

\* lines 270-272: write encodes the text as UTF-8, which a lone surrogate
\* fails, and the device may run full; the with statement closes the file
WriteOutputFile ==
    /\ mpc = "write"
    /\ IF ~html_content.encodable
       THEN Except("UnicodeEncodeError", "write") /\ UNCHANGED output_file
       ELSE \E full \in BOOLEAN :
               IF full
               THEN Except("OSError", "write") /\ output_file' = "partial"
               ELSE /\ output_file' = "html"
                    /\ mpc' = "preview"
                    /\ UNCHANGED <<rc, caught>>
    /\ UNCHANGED <<menv, output_dir, newsletter_data, output_path, html_content,
                   browser, vvars, tvars, fvars, rvars>>

\* lines 275-279
Preview ==
    /\ mpc = "preview"
    /\ browser' = args.preview
    /\ mpc' = "summary"
    /\ UNCHANGED <<menv, output_dir, output_file, newsletter_data, output_path,
                   html_content, rc, caught, vvars, tvars, fvars, rvars>>

\* lines 282-296 and 312: print encodes for the terminal, which a lone
\* surrogate in the date or the subject fails; then return 0
Summary ==
    /\ mpc = "summary"
    /\ \E printable \in (IF yaml_file.surrogate THEN BOOLEAN ELSE {TRUE}) :
          IF ~printable
          THEN Except("UnicodeEncodeError", "summary")
          ELSE /\ rc' = <<0>>
               /\ mpc' = "exit"
               /\ UNCHANGED caught
    /\ UNCHANGED <<menv, output_dir, output_file, newsletter_data, output_path,
                   html_content, browser, vvars, tvars, fvars, rvars>>

NextMain ==
    \/ LoadYamlData
    \/ OutputPath
    \/ EnsureOutputDirectory
    \/ RenderNewsletter
    \/ OpenOutputFile
    \/ WriteOutputFile
    \/ Preview
    \/ Summary

SpecMain == InitMain /\ [][NextMain]_vars

(***************************************************************************)
(* SpecRender: a caller holds one dict and calls render_newsletter on it   *)
(* up to MaxRenders times, the clock moving on between the calls           *)
(***************************************************************************)
\* the instants datetime.now() may give, in the order they pass
Instants ==
    <<<<2024, 1, 10, 9, 5, 0>>, <<2024, 1, 10, 9, 5, 7>>,
      <<2024, 12, 31, 23, 59, 59>>, <<2026, 11, 6, 14, 30, 0>>>>

\* the values a 'generated_at' the caller set may have
GivenStamps == {<<"earlier">>, strftime_timestamp(Instants[2], TRUE)}

RenderItems == {FullItem, LegacyItem, Item({"title"})}

\* d with 'generated_at' set by the caller
Stamped(d, stamp) ==
    [k \in DOMAIN d \cup {"generated_at"} |-> IF k = "generated_at" THEN stamp ELSE d[k]]

\* d is a dict a caller may hand to render_newsletter: a mapping of either
\* shape, valid or not, with or without a 'generated_at' of its own
IsRenderData(d) ==
    \E D \in DateKeySets, n \in 0..MaxItems :
        \E its \in [1..n -> RenderItems] :
            \/ d = Section(D, its)
            \/ \E root \in RootExtras : d = Wrapped(root, Section(D, its))
            \/ \E stamp \in GivenStamps :
                  \/ d = Stamped(Section(D, its), stamp)
                  \/ \E root \in RootExtras :
                        d = Stamped(Wrapped(root, Section(D, its)), stamp)

InitRender ==
    /\ IsRenderData(rdata)
    /\ rdata_before = rdata
    /\ rdata_first = rdata
    /\ renders = 0
    /\ clock = 1
    /\ rendered = Raised("")
    /\ pads_year \in BOOLEAN
    /\ today = <<1, 1, 1>> /\ newsletter_date = <<>> /\ fpc = "idle"
    /\ filename = Raised("")
    /\ VIdle /\ TIdle /\ MIdle

\* lines 159-168: one call, at an instant not before the one of the call before,
\* with the template file in any of its states
RenderNewsletterCall ==
    /\ renders < MaxRenders
    /\ \E t \in clock..Len(Instants), tpl \in Templates :
          LET call == render_newsletter(rdata, tpl,
                                        strftime_timestamp(Instants[t], pads_year))
          IN  /\ rdata' = call.data
              /\ rendered' = call.result
              /\ rdata_first' = IF renders = 0 THEN call.data ELSE rdata_first
              /\ clock' = t
    /\ rdata_before' = rdata
    /\ renders' = renders + 1
    /\ UNCHANGED <<vvars, tvars, fvars, mvars>>

NextRender == RenderNewsletterCall

SpecRender == InitRender /\ [][NextRender]_vars

(***************************************************************************)
(* Claims about validate_newsletter_data (checked under SpecValidate)      *)
(***************************************************************************)
\* the variant's section, date key and item required-set, as the spec states them
VariantOf(d) == IF "newsletter" \in DOMAIN d THEN "Current" ELSE "Legacy"
SectionOf(d) == IF VariantOf(d) = "Current" THEN d["newsletter"] ELSE d
DateKeyOf(d) == IF VariantOf(d) = "Current" THEN "date" ELSE "newsletter_date"
ItemFieldsOf(d) ==
    IF VariantOf(d) = "Current"
    THEN <<"company", "title", "summary", "why_it_matters", "next_steps">>
    ELSE <<"title", "summary", "why_it_matters">>

\* d satisfies the required-field set of its variant
Conforms(d) ==
    /\ ~Falsy(d)
    /\ DateKeyOf(d) \in DOMAIN SectionOf(d)
    /\ "items" \in DOMAIN SectionOf(d)
    /\ SectionOf(d)["items"] # <<>>
    /\ \A i \in 1..Len(SectionOf(d)["items"]) :
          \A j \in 1..Len(ItemFieldsOf(d)) :
              ItemFieldsOf(d)[j] \in DOMAIN SectionOf(d)["items"][i]

\* C1: validate_newsletter_data accepts a document exactly when it satisfies the
\* required-field set of the variant chosen by the presence of 'newsletter'
\* (wrapper: 'date', non-empty 'items', five fields per item; no wrapper:
\* 'newsletter_date', non-empty 'items', three fields per item), root-level keys
\* beside the wrapper playing no part.
ValidateAcceptsExactlyConforming ==
    vpc = "done" => ((verdict = Returned) <=> Conforms(data))

\* C1 witness: a Current-shape document whose root holds only a stray
\* 'newsletter_date' beside the wrapper was accepted.
ValidateAcceptedCurrentBesideRootKeys ==
    /\ vpc = "done"
    /\ verdict = Returned
    /\ DOMAIN data = {"newsletter", "newsletter_date"}
    /\ Len(data["newsletter"]["items"]) = 2

\* every condition a document violates, with its place in the checking order
\* <<stage, item position, field position>> and the message of its error
Violations(d) ==
    (IF Falsy(d) THEN {[rank |-> <<1, 0, 0>>, msg |-> MsgEmpty]} ELSE {})
    \cup
    (IF ~Falsy(d) /\ DateKeyOf(d) \notin DOMAIN SectionOf(d)
     THEN {[rank |-> <<2, 0, 0>>, msg |-> MsgMissing(DateKeyOf(d))]} ELSE {})
    \cup
    (IF ~Falsy(d) /\ "items" \notin DOMAIN SectionOf(d)
     THEN {[rank |-> <<3, 0, 0>>, msg |-> MsgMissing("items")]} ELSE {})
    \cup
    (IF ~Falsy(d) /\ "items" \in DOMAIN SectionOf(d)
     THEN (IF SectionOf(d)["items"] = <<>>
           THEN {[rank |-> <<4, 0, 0>>, msg |-> MsgNoItems]} ELSE {})
          \cup
          {[rank |-> <<5, i, j>>, msg |-> MsgMissingInItem(ItemFieldsOf(d)[j], i)] :
              <<i, j>> \in {p \in (1..Len(SectionOf(d)["items"]))
                                    \X (1..Len(ItemFieldsOf(d))) :
                  ItemFieldsOf(d)[p[2]] \notin DOMAIN SectionOf(d)["items"][p[1]]}}
     ELSE {})

\* lexicographic order on ranks
RankBefore(a, b) ==
    \/ a[1] < b[1]
    \/ a[1] = b[1] /\ a[2] < b[2]
    \/ a[1] = b[1] /\ a[2] = b[2] /\ a[3] < b[3]

EarliestViolation(d) ==
    CHOOSE v \in Violations(d) :
        \A w \in Violations(d) : w = v \/ RankBefore(v.rank, w.rank)

\* C2: the checks run in the order empty input, date key, 'items' present,
\* 'items' non-empty, then the items in sequence and in each the required fields
\* in their listed order; of all the conditions a document violates the error
\* raised is the earliest in that order, and an item error names the first
\* missing field of the first failing item with its 1-based position.
ValidateRaisesEarliestViolation ==
    vpc = "done" =>
        IF Violations(data) = {} THEN verdict = Returned
        ELSE verdict = ValueError(EarliestViolation(data).msg)

\* C2 witness: a document with several violations, the earliest being a missing
\* why_it_matters in item 2, failed citing item 2 and why_it_matters.
ValidateCitedSecondItem ==
    /\ vpc = "done"
    /\ Cardinality(Violations(data)) >= 2
    /\ verdict = ValueError(MsgMissingInItem("why_it_matters", 2))

\* C3: every non-empty document that lacks its variant's date field fails with
\* the error naming the variant's key ('date' under the wrapper, 'newsletter_date'
\* without it), whatever the other variant's key or 'items' are.
ValidateNamesVariantDateKey ==
    (vpc = "done" /\ ~Falsy(data) /\ DateKeyOf(data) \notin DOMAIN SectionOf(data))
        => verdict = ValueError(MsgMissing(DateKeyOf(data)))

\* C3 witness: a wrapper without 'date' and without 'items', beside a root-level
\* 'newsletter_date', failed naming 'date'.
ValidateNamedDateUnderWrapper ==
    /\ vpc = "done"
    /\ DOMAIN data = {"newsletter", "newsletter_date"}
    /\ DOMAIN data["newsletter"] = {"newsletter_date"}
    /\ verdict = ValueError(MsgMissing("date"))

\* C4: with the date field present, an empty 'items' fails with "Newsletter must
\* have at least one item" and an absent 'items' fails with "Missing required
\* field 'items'"; neither error is raised in the other's case.
ValidateTellsEmptyFromMissingItems ==
    (vpc = "done" /\ ~Falsy(data) /\ DateKeyOf(data) \in DOMAIN SectionOf(data)) =>
        /\ ("items" \notin DOMAIN SectionOf(data))
              <=> (verdict = ValueError(MsgMissing("items")))
        /\ ("items" \in DOMAIN SectionOf(data) /\ SectionOf(data)["items"] = <<>>)
              <=> (verdict = ValueError(MsgNoItems))

\* C4 witness: a Legacy-shape document with its date and an empty 'items' failed
\* with the "at least one item" error.
ValidateRejectedEmptyItems ==
    /\ vpc = "done"
    /\ DOMAIN data = {"newsletter_date", "items"}
    /\ verdict = ValueError(MsgNoItems)

(***************************************************************************)
(* Claims about the template filters (checked under SpecText)              *)
(***************************************************************************)
BulletGlyphs == {Bullet, "-"}

\* s without its leading and trailing whitespace
NonSpaceAt(s) == {i \in 1..Len(s) : ~IsSpace(s[i])}
Trimmed(s) ==
    IF NonSpaceAt(s) = {} THEN <<>>
    ELSE SubSeq(s, CHOOSE i \in NonSpaceAt(s) : \A j \in NonSpaceAt(s) : i <= j,
                   CHOOSE i \in NonSpaceAt(s) : \A j \in NonSpaceAt(s) : i >= j)
LeftTrimmed(s) ==
    IF NonSpaceAt(s) = {} THEN <<>>
    ELSE SubSeq(s, CHOOSE i \in NonSpaceAt(s) : \A j \in NonSpaceAt(s) : i <= j, Len(s))
RightTrimmed(s) ==
    IF NonSpaceAt(s) = {} THEN <<>>
    ELSE SubSeq(s, 1, CHOOSE i \in NonSpaceAt(s) : \A j \in NonSpaceAt(s) : i >= j)

\* the lines of the filter's input and of its output
InputLines == split(input_text, "\n")
OutputLines == IF out = <<>> THEN <<>> ELSE split(out, "\n")

IsBulletLine(l) == Trimmed(l) # <<>> /\ Trimmed(l)[1] \in BulletGlyphs
IsBlankLine(l) == Trimmed(l) = <<>>
IsOpen(l) == l = <<UlOpen>>
IsClose(l) == l = <<UlClose>>
IsItem(l) == Len(l) >= 2 /\ l[1] = LiOpen /\ l[Len(l)] = LiClose
IsPassThrough(l) == ~IsOpen(l) /\ ~IsClose(l) /\ ~IsItem(l)

\* the lines of ls that are not blank
RECURSIVE NonBlankLines(_)
NonBlankLines(ls) ==
    IF ls = <<>> THEN <<>>
    ELSE (IF IsBlankLine(Head(ls)) THEN <<>> ELSE <<Head(ls)>>) \o NonBlankLines(Tail(ls))

\* the lines of ls that are no list marker
RECURSIVE ContentLines(_)
ContentLines(ls) ==
    IF ls = <<>> THEN <<>>
    ELSE (IF IsOpen(Head(ls)) \/ IsClose(Head(ls)) THEN <<>> ELSE <<Head(ls)>>)
            \o ContentLines(Tail(ls))

InputContent == NonBlankLines(InputLines)
OutputContent == ContentLines(OutputLines)

\* list-open markers minus list-close markers among the first k lines of ls
ListDepth(ls, k) ==
    Cardinality({i \in 1..k : IsOpen(ls[i])}) - Cardinality({i \in 1..k : IsClose(ls[i])})

\* the lines of ls that start a maximal run of consecutive bullet lines
RunStarts(ls) ==
    {i \in 1..Len(ls) : IsBulletLine(ls[i]) /\ (i = 1 \/ ~IsBulletLine(ls[i - 1]))}

\* C5: the output of format_bullets is well-bracketed and order-preserving: one
\* list-open marker per maximal run of consecutive bullet lines, directly before
\* the run's first item; every item between a list-open and its list-close;
\* no nesting; a list-close directly after the run's last item (at the next
\* non-bullet line or at the end of input), so that opens and closes are equal
\* in number; items and pass-through lines in input order.
FormatBulletsWellBracketed ==
    (filter = "format_bullets" /\ applied = 1) =>
        LET ol == OutputLines
            oc == OutputContent
            ic == InputContent
        IN  /\ \A k \in 1..Len(ol) :
                  /\ ListDepth(ol, k) \in {0, 1}
                  /\ IsItem(ol[k]) => ListDepth(ol, k) = 1
                  /\ IsPassThrough(ol[k]) => ListDepth(ol, k) = 0
                  /\ IsOpen(ol[k]) => k < Len(ol) /\ IsItem(ol[k + 1])
                  /\ IsClose(ol[k]) => k > 1 /\ IsItem(ol[k - 1])
            /\ ListDepth(ol, Len(ol)) = 0
            /\ Cardinality({k \in 1..Len(ol) : IsOpen(ol[k])})
                  = Cardinality(RunStarts(InputLines))
            /\ Len(oc) = Len(ic)
            /\ \A k \in 1..Len(ic) :
                  IF IsBulletLine(ic[k])
                  THEN oc[k] = <<LiOpen>> \o format_bullet(ic[k]) \o <<LiClose>>
                  ELSE Trimmed(oc[k]) = Trimmed(ic[k])

\* C5 witness: "- a\n- b\ntext" gave open, item, item, close, text.
FormatBulletsTwoItemsThenText ==
    /\ filter = "format_bullets" /\ applied = 1
    /\ input_text = <<"-", " ", "a", "\n", "-", " ", "a", "\n", "a">>
    /\ OutputLines = <<<<UlOpen>>, <<LiOpen, "a", LiClose>>, <<LiOpen, "a", LiClose>>,
                       <<UlClose>>, <<"a">>>>

\* C6 as stated: format_bullet, clean_citations and nl2br are idempotent on every
\* string (a second application returns its argument, the first output).
NormalizersIdempotent ==
    applied = 2 => out = prev

\* a span **X** that the bold conversion would rewrite
HasBoldSpan(s) ==
    \E i, j \in 1..Len(s) :
        /\ j >= i + 3 /\ j + 1 <= Len(s)
        /\ s[i] = "*" /\ s[i + 1] = "*" /\ s[j] = "*" /\ s[j + 1] = "*"
        /\ \A k \in (i + 2)..(j - 1) : s[k] # "\n"
\* one of the three literals the citation stripping of format_bullet removes
HasCitationLiteral(s) ==
    \E i \in 1..Len(s) :
        s[i] \in {Cref, "}"} \/ (i < Len(s) /\ s[i] = "]" /\ s[i + 1] = IndexEq)
\* a numbered citation [n]
HasNumberedCitation(s) ==
    \E i, j \in 1..Len(s) :
        /\ j > i + 1 /\ s[i] = "[" /\ s[j] = "]"
        /\ \A k \in (i + 1)..(j - 1) : IsDigit(s[k])
\* a structured citation :contentReference[oaicite:X]{index=n}
HasStructuredCitation(s) ==
    \E i, c, d \in 1..Len(s) :
        /\ s[i] = Cref /\ c > i + 1 /\ d > c + 2
        /\ \A k \in (i + 1)..(c - 1) : s[k] # "]"
        /\ s[c] = "]" /\ s[c + 1] = IndexEq
        /\ \A k \in (c + 2)..(d - 1) : IsDigit(s[k])
        /\ s[d] = "}"
\* s holds nothing the filter named f strips or rewrites
Normalized(f, s) ==
    CASE f = "format_bullet" ->
            /\ Trimmed(s) = s
            /\ s # <<>> => s[1] \notin BulletGlyphs
            /\ ~HasBoldSpan(s)
            /\ ~HasCitationLiteral(s)
      [] f = "clean_citations" -> ~HasNumberedCitation(s) /\ ~HasStructuredCitation(s)
      [] OTHER -> TRUE

\* C6 as amended: nl2br is idempotent on every string; format_bullet and
\* clean_citations return their own output unchanged whenever that output holds
\* nothing they strip or rewrite (no outer whitespace, leading glyph, bold span
\* or citation literal; no [n] or structured citation).
NormalizersIdempotentOnNormalized ==
    (applied = 2 /\ Normalized(filter, prev)) => out = prev

\* C6 witness: format_bullet applied to "a **b** c" and again to the result,
\* which holds the <strong> markup, returned that result.
FormatBulletTwiceOnBold ==
    /\ applied = 2 /\ filter = "format_bullet"
    /\ input_text = <<"a", " ", "*", "*", "a", "*", "*", " ", "a">>
    /\ prev = <<"a", " ", StrongOpen, "a", StrongClose, " ", "a">>
    /\ out = prev

\* C7 as stated: the bullet strip removes from the trimmed input one leading
\* glyph only when whitespace follows it, with that whitespace, and otherwise
\* returns the trimmed input ("-Hello" is not treated as bulleted).
BulletStripOnlyBeforeWhitespace ==
    (filter = "format_bullet" /\ applied = 1 /\ prev # <<>>) =>
        cleaned =
            IF /\ Len(Trimmed(prev)) >= 2
               /\ Trimmed(prev)[1] \in BulletGlyphs
               /\ IsSpace(Trimmed(prev)[2])
            THEN LeftTrimmed(Tail(Trimmed(prev)))
            ELSE Trimmed(prev)

\* C7 as amended: the bullet strip removes from the trimmed input at most one
\* leading glyph (bullet dot or hyphen) and the whitespace after it, if any, and
\* changes nothing else; a second glyph is kept; a glyph needs no whitespace
\* after it to be removed.
BulletStripOneGlyph ==
    (filter = "format_bullet" /\ applied = 1 /\ prev # <<>>) =>
        cleaned =
            IF Trimmed(prev) # <<>> /\ Trimmed(prev)[1] \in BulletGlyphs
            THEN LeftTrimmed(Tail(Trimmed(prev)))
            ELSE Trimmed(prev)

\* C7 witness: " --a " lost its outer whitespace and one hyphen, no more.
BulletStripKeptSecondGlyph ==
    /\ filter = "format_bullet" /\ applied = 1
    /\ prev = <<" ", "-", "-", "a", " ">>
    /\ cleaned = <<"-", "a">>

\* what the trimming of the whole text leaves of the k-th of the non-blank lines ls
TextTrimmedLine(ls, k) ==
    LET m == IF k = 1 THEN LeftTrimmed(ls[k]) ELSE ls[k]
    IN  IF k = Len(ls) THEN RightTrimmed(m) ELSE m

\* C10 as stated: every non-bullet, non-blank input line is an output line
\* exactly as it stood in the input, the first and last lines included, and
\* blank lines give no output line.
PassThroughLinesVerbatim ==
    (filter = "format_bullets" /\ applied = 1) =>
        LET oc == OutputContent
            ic == InputContent
        IN  /\ Len(oc) = Len(ic)
            /\ \A k \in 1..Len(ic) : ~IsBulletLine(ic[k]) => oc[k] = ic[k]

\* C10 as amended: every non-bullet, non-blank input line is an output line of
\* its own, exactly as it stood in the trimmed text: unchanged, except that the
\* first non-blank line of the text has lost its leading whitespace and the last
\* non-blank line its trailing whitespace; blank lines give no output line.
PassThroughLinesOfTrimmedText ==
    (filter = "format_bullets" /\ applied = 1) =>
        LET oc == OutputContent
            ic == InputContent
        IN  /\ Len(oc) = Len(ic)
            /\ \A k \in 1..Len(ic) :
                  ~IsBulletLine(ic[k]) => oc[k] = TextTrimmedLine(ic, k)

\* C10 witness: " a\n\n a " gave "a" and " a": the blank line is dropped, the
\* inner whitespace kept, the outer whitespace of the text lost.
PassThroughKeptInnerWhitespace ==
    /\ filter = "format_bullets" /\ applied = 1
    /\ input_text = <<" ", "a", "\n", "\n", " ", "a">>
    /\ out = <<"a", "\n", " ", "a">>

(***************************************************************************)
(* Claims about generate_output_filename (checked under SpecFilename)      *)
(***************************************************************************)
\* the ways a month and a day number may be written for %m and %d
MonthTextsOf(m) == {Decimal(m, 2), Decimal(m, 1)}
DayTextsOf(d) ==
    {Decimal(d, 2), Decimal(d, 1)} \cup (IF d < 10 THEN {<<" ">> \o Decimal(d, 1)} ELSE {})

\* the date s parses to, <<>> if it does not parse: s is a four-digit year, a
\* month and a day of an existing date, joined by hyphens
DateOf(s) ==
    IF /\ Len(s) >= 8
       /\ \A i \in 1..4 : IsDigit(s[i])
       /\ s[5] = "-"
       /\ \E p \in 7..8 : s[p] = "-"
    THEN LET p == IF s[7] = "-" THEN 7 ELSE 8
             y == IntOf(SubSeq(s, 1, 4))
             ms == {m \in 1..12 : SubSeq(s, 6, p - 1) \in MonthTextsOf(m)}
             ds == {d \in 1..31 : SubSeq(s, p + 1, Len(s)) \in DayTextsOf(d)}
         IN IF y >= 1 /\ ms # {} /\ ds # {}
            THEN LET m == CHOOSE m \in ms : TRUE
                     d == CHOOSE d \in ds : TRUE
                 IN IF d <= DaysInMonth(y, m) THEN <<y, m, d>> ELSE <<>>
            ELSE <<>>
    ELSE <<>>

\* YYYYMMDD
EightDigits(date) == Decimal(date[1], 4) \o Decimal(date[2], 2) \o Decimal(date[3], 2)

\* C9: generate_output_filename never fails for a date string; when the string
\* parses as YYYY-MM-DD the result is newsletter_<YYYYMMDD>.html for that date,
\* and otherwise newsletter_<YYYYMMDD>.html for the current date.
FilenameFromDateOrToday ==
    fpc = "done" =>
        LET date == DateOf(newsletter_date)
        IN  /\ filename.exc = "none"
            /\ filename.value =
                  <<"newsletter_">>
                    \o EightDigits(IF date # <<>> THEN date ELSE today)
                    \o <<".html">>

(***************************************************************************)
(* Claims about main (checked under SpecMain)                              *)
(***************************************************************************)
\* the failures the run can end in before the output file is opened
FailedBeforeOpen ==
    mpc = "exit" /\ caught.at \in {"load", "output_path", "ensure_output_directory",
                                   "render", "open"}

\* the output file is opened only after loading, validation and rendering
OpenedOnlyAfterRender ==
    output_file # output_before =>
        /\ yaml_file.kind = "document"
        /\ validate_newsletter_data(yaml_file.doc).exc = "none"
        /\ html_content.rendered

\* a failure of loading, parsing, validation or rendering leaves the output
\* file as it was and makes main return 1
FailureLeavesOutputAlone ==
    FailedBeforeOpen => output_file = output_before /\ rc = <<1>>

\* main returns 0 only when the full HTML was written
ZeroOnlyAfterFullWrite ==
    rc = <<0>> => output_file = "html" /\ caught = NotCaught

\* a finished run has written the full HTML or has left the output file alone
NoPartialOutput ==
    mpc = "exit" => output_file \in {output_before, "html"}

\* C8: main never leaves partial output and its exit code reflects the
\* outcome: the output file is opened only after loading, validation and
\* rendering succeeded; a file-not-found, parse, validation, template or render
\* failure leaves the output file alone and returns 1; 0 is returned only
\* after the full HTML was written; a finished run leaves either the full
\* HTML or the output file as it was.
MainAllOrNothing ==
    /\ OpenedOnlyAfterRender
    /\ FailureLeavesOutputAlone
    /\ ZeroOnlyAfterFullWrite
    /\ NoPartialOutput

(***************************************************************************)
(* Claims about the literal removals of format_bullet (checked under       *)
(* SpecText)                                                               *)
(***************************************************************************)
\* the three literals line 94 removes, in the order the code removes them
CitationLiterals == <<<<Cref>>, <<"]", IndexEq>>, <<"}">>>>

\* the orders the three removals can be applied in
RemovalOrders ==
    {order \in [DOMAIN CitationLiterals -> DOMAIN CitationLiterals] :
        \A i, j \in DOMAIN order : order[i] = order[j] => i = j}

\* s with the literals removed one after the other in the given order
RECURSIVE RemovedFrom(_, _, _)
RemovedFrom(s, order, k) ==
    IF k > Len(order) THEN s
    ELSE RemovedFrom(replace(s, CitationLiterals[order[k]], <<>>), order, k + 1)

RemovedInOrder(s, order) == RemovedFrom(s, order, 1)

\* the order of the code: first, second, third
CodeOrder == [i \in DOMAIN CitationLiterals |-> i]

\* the text line 94 is applied to in the latest format_bullet call
BeforeLiteralRemoval == sub_bold(cleaned)

\* a ']' and a later '{index=' with nothing but ':contentReference[oaicite:'
\* and '}' pieces, and at least one, between them
HasSeparatedIndexLiteral(s) ==
    \E i, j \in 1..Len(s) :
        /\ j > i + 1 /\ s[i] = "]" /\ s[j] = IndexEq
        /\ \A k \in (i + 1)..(j - 1) : s[k] \in {Cref, "}"}

\* C11 as stated: in format_bullet the result of removing the three citation
\* literals is the same for every order of the three removals.
LiteralRemovalOrderIrrelevant ==
    (filter = "format_bullet" /\ applied >= 1 /\ prev # <<>>) =>
        \A order \in RemovalOrders : RemovedInOrder(BeforeLiteralRemoval, order) = out

\* C11 as amended: format_bullet returns the result of the removals in the
\* order first, second, third, and every other order gives that same result
\* exactly when the text has no ']' parted from a following '{index=' by
\* pieces the other two removals take out.
LiteralRemovalOrderMattersWhenJoining ==
    (filter = "format_bullet" /\ applied >= 1 /\ prev # <<>>) =>
        LET before == BeforeLiteralRemoval
        IN  /\ out = RemovedInOrder(before, CodeOrder)
            /\ (\A order \in RemovalOrders : RemovedInOrder(before, order) = out)
                  <=> ~HasSeparatedIndexLiteral(before)

\* C11 witness: format_bullet("]}{index=") returned "]{index=", where removing
\* '}' first would have left nothing
LiteralRemovalLeftIndexLiteral ==
    /\ filter = "format_bullet" /\ applied = 1
    /\ prev = <<"]", "}", IndexEq>>
    /\ out = <<"]", IndexEq>>
    /\ RemovedInOrder(BeforeLiteralRemoval, [i \in DOMAIN CitationLiterals |->
                                                Len(CitationLiterals) + 1 - i]) = <<>>

(***************************************************************************)
(* Claims about render_newsletter (checked under SpecRender)               *)
(***************************************************************************)
\* s reads YYYY-MM-DD HH:MM:SS
IsTimestampText(s) ==
    /\ Len(s) = Len(<<"Y", "Y", "Y", "Y", "-", "m", "m", "-", "d", "d", " ",
                      "H", "H", ":", "M", "M", ":", "S", "S">>)
    /\ \A i \in 1..Len(s) :
          IF i \in {5, 8} THEN s[i] = "-"
          ELSE IF i = 11 THEN s[i] = " "
          ELSE IF i \in {14, 17} THEN s[i] = ":"
          ELSE IsDigit(s[i])

\* d has the root-level key
Stamp(d) == d["generated_at"]
HasStamp(d) == "generated_at" \in DOMAIN d

\* C12: render_newsletter changes the caller's dict only by adding a root-level
\* 'generated_at' reading YYYY-MM-DD HH:MM:SS of the call's instant when the
\* key is absent; a 'generated_at' already there is kept, every other key and
\* every item is left as it was, and over repeated calls on one dict the
\* timestamp stays the one the dict had after the first call.
RenderOnlyAddsGeneratedAtOnce ==
    renders >= 1 =>
        /\ \A k \in DOMAIN rdata_before :
              k \in DOMAIN rdata /\ rdata[k] = rdata_before[k]
        /\ DOMAIN rdata \subseteq DOMAIN rdata_before \cup {"generated_at"}
        /\ (HasStamp(rdata) /\ ~HasStamp(rdata_before)) =>
              /\ Stamp(rdata) = strftime_timestamp(Instants[clock], TRUE)
              /\ IsTimestampText(Stamp(rdata))
        /\ (~HasStamp(rdata_before) /\ rendered.exc \notin {"TemplateNotFound",
                                                            "TemplateSyntaxError"})
              => HasStamp(rdata)
        /\ HasStamp(rdata_first) =>
              HasStamp(rdata) /\ Stamp(rdata) = Stamp(rdata_first)

\* C12 witness: the first call stamped the dict, a later call at a later
\* instant rendered it again, and the timestamp is still the first one
RenderKeptFirstStamp ==
    /\ renders = 2
    /\ rendered.exc = "none"
    /\ "newsletter" \in DOMAIN rdata
    /\ Len(rdata["newsletter"]["items"]) = MaxItems
    /\ HasStamp(rdata_before)
    /\ Stamp(rdata) = strftime_timestamp(Instants[1], TRUE)
    /\ clock > 1
    /\ Stamp(rdata) # strftime_timestamp(Instants[clock], TRUE)

=============================================================================
